---- MODULE Spec2Model ----
(***************************************************************************)
(* A model of the `simply` interpreter: the line grammar of src/parse.rs,  *)
(* the driver of src/main.rs and the execution engine of src/exec.rs.      *)
(*                                                                         *)
(* Text is a sequence of one-character strings.  A register name is the    *)
(* text the grammar recognised.  The register file is a function whose     *)
(* domain is the set of registers assigned so far (the HashMap's keys).    *)
(***************************************************************************)
EXTENDS Integers, Sequences, FiniteSets, TLC

VARIABLES
    lines,          \* the lines of the source file (main.rs: `lines`)
    lineno,         \* how many of them the driver's loop has consumed
    instructions,   \* Vec<Instruction> handed to Program::run
    memory,         \* Program.memory
    pointer,        \* Program.pointer
    output,         \* what println!/print! wrote: a sequence of code points
    pc,             \* "parse", "run", "ok", "exec_error", "panic", "syntax_error";
                    \* for a parser applied alone: "text", "register", "instruction"
    err,            \* the ExecError a run returned
    steps,          \* number of calls of Execute::execute made by Program::run
    before,         \* pointer, memory and output at the latest call of Execute::execute
    fragment,       \* the text a parser of the grammar is applied to
    result          \* the IResult that parser returned

vars ==
    <<lines, lineno, instructions, memory, pointer, output, pc, err, steps, before,
      fragment, result>>

---------------------------------------------------------------------------
(* Bounds of the model.                                                    *)

\* Longest run of instructions that follows the `set` prologue of a program.
MaxBody == 1

\* Most lines in a source file handed to the driver.
MaxLines == 3

\* Most calls of Execute::execute explored in one run.
MaxSteps == 5

\* Longest text fragment, over a small alphabet, handed to a parser alone.
MaxFragment == 3

---------------------------------------------------------------------------
(* Values: i32.                                                            *)

MaxI32 == 2147483647

MinI32 == -MaxI32 - 1

I32 == MinI32..MaxI32

\* i32 arithmetic.  The exact result is never formed when it is out of range:
\* the overflow tests and the wrapped results stay within 32 bits throughout.
AddOverflows(a, b) ==
    \/ b > 0 /\ a > MaxI32 - b
    \/ b < 0 /\ a < MinI32 - b

\* a + b modulo 2^32, as a two's-complement i32.
WrappingAdd(a, b) ==
    IF b > 0 /\ a > MaxI32 - b THEN ((((a - MaxI32) - 1) + b) - MaxI32) - 1
    ELSE IF b < 0 /\ a < MinI32 - b THEN ((((a + MaxI32) + 1) + b) + MaxI32) + 1
    ELSE a + b

SubOverflows(a, b) ==
    \/ b < 0 /\ a > MaxI32 + b
    \/ b > 0 /\ a < MinI32 + b

\* a - b modulo 2^32, as a two's-complement i32.
WrappingSub(a, b) ==
    IF b < 0 /\ a > MaxI32 + b THEN ((((a - MaxI32) - 1) - b) - MaxI32) - 1
    ELSE IF b > 0 /\ a < MinI32 + b THEN ((((a + MaxI32) + 1) - b) + MaxI32) + 1
    ELSE a - b

---------------------------------------------------------------------------
(* Text helpers.                                                           *)

Take(s, n) == SubSeq(s, 1, n)

Drop(s, n) == SubSeq(s, n + 1, Len(s))

RECURSIVE SpanLen(_, _)
\* Length of the longest prefix of s made of characters of S.
SpanLen(s, S) ==
    IF s = <<>> THEN 0
    ELSE IF Head(s) \in S THEN 1 + SpanLen(Tail(s), S)
    ELSE 0

Alpha ==
    {"a","b","c","d","e","f","g","h","i","j","k","l","m",
     "n","o","p","q","r","s","t","u","v","w","x","y","z",
     "A","B","C","D","E","F","G","H","I","J","K","L","M",
     "N","O","P","Q","R","S","T","U","V","W","X","Y","Z"}

Digit == {"0","1","2","3","4","5","6","7","8","9"}

AlphaNumeric == Alpha \cup Digit

MultiSpace == {" ", "\t", "\r", "\n"}

DigitValue(c) ==
    CHOOSE n \in 0..9 : <<"0","1","2","3","4","5","6","7","8","9">>[n + 1] = c

\* IResult: Ok((rest, val)) or Err.
Ok(rest, val) == [ok |-> TRUE, rest |-> rest, val |-> val]

Err == [ok |-> FALSE, rest |-> <<>>, val |-> <<>>]

---------------------------------------------------------------------------
(* src/parse.rs: the grammar.                                              *)

tag(t, input) ==
    IF Len(input) >= Len(t) /\ Take(input, Len(t)) = t
    THEN Ok(Drop(input, Len(t)), t)
    ELSE Err

RECURSIVE alt_tags(_, _)
\* alt over a tuple of tags: the first tag that matches.
alt_tags(tags, input) ==
    IF tags = <<>> THEN Err
    ELSE IF tag(Head(tags), input).ok THEN tag(Head(tags), input)
    ELSE alt_tags(Tail(tags), input)

multispace0(input) == Drop(input, SpanLen(input, MultiSpace))

\* register as it would be if a name could start with an underscore.
registerUnderscoreFirst(input) ==
    LET n1 == SpanLen(input, Alpha \cup {"_"})
        n2 == SpanLen(Drop(input, n1), AlphaNumeric \cup {"_"})
    IN  IF n1 = 0 THEN Err
        ELSE Ok(Drop(input, n1 + n2), Take(input, n1 + n2))

register(input) ==
    LET n1 == SpanLen(input, Alpha)
        n2 == SpanLen(Drop(input, n1), AlphaNumeric \cup {"_"})
    IN  IF n1 = 0 THEN Err
        ELSE Ok(Drop(input, n1 + n2), Take(input, n1 + n2))

RECURSIVE i32_digits(_, _, _, _)
\* nom's i32 after the sign: checked accumulation, digit by digit.
i32_digits(i, value, positive, position) ==
    IF i = <<>> THEN (IF position = 0 THEN Err ELSE Ok(<<>>, value))
    ELSE IF Head(i) \notin Digit
    THEN (IF position = 0 THEN Err ELSE Ok(i, value))
    ELSE LET d == DigitValue(Head(i))
         IN  \* checked_mul(10), then checked_add(d) or checked_sub(d)
             IF value > MaxI32 \div 10 \/ value < -(MaxI32 \div 10) THEN Err
             ELSE IF positive /\ value * 10 > MaxI32 - d THEN Err
             ELSE IF ~positive /\ value * 10 < MinI32 + d THEN Err
             ELSE i32_digits(Tail(i),
                             IF positive THEN value * 10 + d ELSE value * 10 - d,
                             positive, position + 1)

i32(input) ==
    IF input # <<>> /\ Head(input) = "-" THEN i32_digits(Tail(input), 0, FALSE, 0)
    ELSE IF input # <<>> /\ Head(input) = "+" THEN i32_digits(Tail(input), 0, TRUE, 0)
    ELSE i32_digits(input, 0, TRUE, 0)

one_register_tags == << <<"o","u","t">>, <<"j","m","p">> >>

one_register_one_value_tags == << <<"s","e","t">> >>

two_register_tags ==
    << <<"c","p","y">>, <<"a","d","d">>, <<"s","u","b">>, <<"j","w","z">>,
       <<"j","n","z">>, <<"g","t","h">>, <<"l","t","h">> >>

one_register_keyword(input) == alt_tags(one_register_tags, input)

one_register_one_value_keyword(input) == alt_tags(one_register_one_value_tags, input)

two_register_keyword(input) == alt_tags(two_register_tags, input)

\* impl From<(&str, &str)> for Instruction
FromOneRegister(instr, reg) ==
    IF instr = <<"o","u","t">> THEN [op |-> "Out", register |-> reg]
    ELSE [op |-> "Jmp", register |-> reg]

\* impl From<(&str, &str, i32)> for Instruction
FromOneRegisterOneValue(instr, reg, val) ==
    [op |-> "Set", register |-> reg, value |-> val]

\* impl From<(&str, &str, &str)> for Instruction
FromTwoRegisters(instr, reg1, reg2) ==
    LET variant ==
            CASE instr = <<"c","p","y">> -> "Cpy"
              [] instr = <<"a","d","d">> -> "Add"
              [] instr = <<"s","u","b">> -> "Sub"
              [] instr = <<"j","w","z">> -> "Jwz"
              [] instr = <<"j","n","z">> -> "Jnz"
              [] instr = <<"g","t","h">> -> "Gth"
              [] instr = <<"l","t","h">> -> "Lth"
    IN  [op |-> variant, register1 |-> reg1, register2 |-> reg2]

one_register_instruction(input) ==
    LET k == one_register_keyword(input)
        r == register(multispace0(k.rest))
    IN  IF ~k.ok THEN Err
        ELSE IF ~r.ok THEN Err
        ELSE IF multispace0(r.rest) # <<>> THEN Err
        ELSE Ok(<<>>, FromOneRegister(k.val, r.val))

one_register_one_value_instruction(input) ==
    LET k == one_register_one_value_keyword(input)
        r == register(multispace0(k.rest))
        v == i32(multispace0(r.rest))
    IN  IF ~k.ok THEN Err
        ELSE IF ~r.ok THEN Err
        ELSE IF ~v.ok THEN Err
        ELSE IF multispace0(v.rest) # <<>> THEN Err
        ELSE Ok(<<>>, FromOneRegisterOneValue(k.val, r.val, v.val))

two_register_instruction(input) ==
    LET k  == two_register_keyword(input)
        r1 == register(multispace0(k.rest))
        r2 == register(multispace0(r1.rest))
    IN  IF ~k.ok THEN Err
        ELSE IF ~r1.ok THEN Err
        ELSE IF ~r2.ok THEN Err
        ELSE IF multispace0(r2.rest) # <<>> THEN Err
        ELSE Ok(<<>>, FromTwoRegisters(k.val, r1.val, r2.val))

instruction(input) ==
    IF one_register_instruction(input).ok THEN one_register_instruction(input)
    ELSE IF one_register_one_value_instruction(input).ok
    THEN one_register_one_value_instruction(input)
    ELSE two_register_instruction(input)

\* impl TryFrom<String> for Instruction
TryFrom(input) == instruction(input)

---------------------------------------------------------------------------
(* src/exec.rs: errors and output formatting.                              *)

UninitializedRegister(r) == [kind |-> "UninitializedRegister", register |-> r]

NegativeExecutionPointer == [kind |-> "NegativeExecutionPointer", register |-> <<>>]

NoError == [kind |-> "None", register |-> <<>>]

RECURSIVE DecimalDigits(_)
\* Code points of the decimal digits of n >= 0.
DecimalDigits(n) ==
    IF n < 10 THEN <<48 + n>>
    ELSE DecimalDigits(n \div 10) \o <<48 + (n % 10)>>

\* println!("{}", value): the decimal text of value, then a line feed.
Println(value) ==
    (IF value = MinI32 THEN <<45>> \o DecimalDigits(MaxI32 \div 10) \o <<56>>
     ELSE IF value < 0 THEN <<45>> \o DecimalDigits(-value)
     ELSE DecimalDigits(value))
        \o <<10>>

\* OutChar as it would be if every value up to 0x10FFFF were a char.
OutCharNoSurrogates(value) ==
    IF value >= 0 /\ value <= 1114111
    THEN value
    ELSE 183

\* u32::try_from(value).ok().and_then(char::from_u32).unwrap_or('·')
OutChar(value) ==
    IF value >= 0 /\ value <= 1114111 /\ value \notin 55296..57343
    THEN value
    ELSE 183

\* HashMap::insert
insert(m, k, v) == [x \in DOMAIN m \cup {k} |-> IF x = k THEN v ELSE m[x]]

---------------------------------------------------------------------------
(* Inputs.                                                                 *)

Regs == { <<"a">>, <<"b">> }

Vals == {-1, 0, 1, 3, 55296, MaxI32}

OneRegisterVariants == {"Out", "Jmp", "Chr"}

TwoRegisterVariants ==
    {"Cpy", "Add", "Sub", "Jwz", "Jnz", "Jwn", "Jwp", "Gth", "Lth"}

\* The Instruction values Execute::execute matches on.
Instructions ==
    {[op |-> "Set", register |-> r, value |-> v] : r \in Regs, v \in Vals}
    \cup {[op |-> o, register |-> r] : o \in OneRegisterVariants, r \in Regs}
    \cup {[op |-> o, register1 |-> r1, register2 |-> r2] :
             o \in TwoRegisterVariants, r1 \in Regs, r2 \in Regs}

\* A prologue assigns some of the registers, in a fixed order, by `set`.
PrologueFor(r) ==
    {<<>>} \cup {<<[op |-> "Set", register |-> r, value |-> v]>> : v \in Vals}

Prologues == {x \o y : x \in PrologueFor(<<"a">>), y \in PrologueFor(<<"b">>)}

Bodies == UNION {[1..n -> Instructions] : n \in 0..MaxBody}

\* Instruction sequences handed to Program::run.
Programs == {p \o b : p \in Prologues, b \in Bodies}

\* Source lines handed to the driver.
SourceLines ==
    { <<"s","e","t"," ","a"," ","1">>,
      <<"s","e","t","\t","b"," "," ","-","1"," ">>,
      <<"s","e","t"," ","a"," ","2","1","4","7","4","8","3","6","4","8">>,
      <<"o","u","t"," ","a">>,
      <<"o","u","t"," ","b">>,
      <<"o","u","t"," ","a"," ","b">>,
      <<"j","m","p"," ","a">>,
      <<"c","p","y"," ","a"," ","b">>,
      <<"a","d","d"," ","a"," ","_","b">>,
      <<"j","w","z"," ","b"," ","a">>,
      <<"j","w","n"," ","b"," ","a">>,
      <<"c","h","r"," ","a">>,
      <<>> }

Files == UNION {[1..n -> SourceLines] : n \in 0..MaxLines}

---------------------------------------------------------------------------
(* Initial states.                                                         *)

\* main: the file is open, nothing is parsed yet.
InitMain ==
    /\ lines \in Files
    /\ lineno = 0
    /\ instructions = <<>>
    /\ pc = "parse"

\* Program::run called on a fresh Program with a given instruction sequence.
InitRun ==
    /\ lines = <<>>
    /\ lineno = 0
    /\ instructions \in Programs
    /\ pc = "run"

Init ==
    /\ (InitMain \/ InitRun)
    /\ memory = <<>>
    /\ pointer = 0
    /\ output = <<>>
    /\ err = NoError
    /\ steps = 0
    /\ before = [pointer |-> 0, memory |-> <<>>, output |-> <<>>]
    /\ fragment = <<>>
    /\ result = Err

---------------------------------------------------------------------------
(* src/main.rs: the driver.                                                *)

\* ReadLine with the failing line skipped instead of returned as the error.
ReadLineSkipping ==
    /\ pc = "parse"
    /\ lineno < Len(lines)
    /\ lineno' = lineno + 1
    /\ LET r == TryFrom(lines[lineno + 1])
       IN  instructions' = IF r.ok THEN Append(instructions, r.val) ELSE instructions
    /\ UNCHANGED <<lines, memory, pointer, output, pc, err, steps, before,
                   fragment, result>>

\* One turn of `for line in lines`: parse the line, push it or return the error.
ReadLine ==
    /\ pc = "parse"
    /\ lineno < Len(lines)
    /\ lineno' = lineno + 1
    /\ LET r == TryFrom(lines[lineno + 1])
       IN  IF r.ok
           THEN /\ instructions' = Append(instructions, r.val)
                /\ pc' = pc
           ELSE /\ instructions' = instructions
                /\ pc' = "syntax_error"
    /\ UNCHANGED <<lines, memory, pointer, output, err, steps, before,
                   fragment, result>>

\* After the loop: Program::default() and the call of run.
StartRun ==
    /\ pc = "parse"
    /\ lineno = Len(lines)
    /\ memory' = <<>>
    /\ pointer' = 0
    /\ pc' = "run"
    /\ UNCHANGED <<lines, lineno, instructions, output, err, steps, before,
                   fragment, result>>

---------------------------------------------------------------------------
(* src/exec.rs: Program::run and Execute::execute.                         *)

Current == instructions[pointer + 1]

\* The loop of run fetches the instruction at the pointer and calls execute,
\* whose match selects the arm of its variant.
Dispatch(variant) ==
    /\ pc = "run"
    /\ steps < MaxSteps
    /\ pointer < Len(instructions)
    /\ Current.op = variant
    /\ steps' = steps + 1
    /\ before' = [pointer |-> pointer, memory |-> memory, output |-> output]
    /\ UNCHANGED <<lines, lineno, instructions, fragment, result>>

\* ReturnErr as it would be if the pointer moved on before the error left.
ReturnErrAdvancing(e) ==
    /\ pc' = "exec_error"
    /\ err' = e
    /\ pointer' = pointer + 1
    /\ UNCHANGED <<memory, output>>

\* `?` on an Err, or `return Err(..)`: run returns the error.
ReturnErr(e) ==
    /\ pc' = "exec_error"
    /\ err' = e
    /\ UNCHANGED <<memory, pointer, output>>

\* A panic: unwrap() on None, or an arithmetic overflow check.
Panic ==
    /\ pc' = "panic"
    /\ UNCHANGED <<memory, pointer, output, err>>

\* Halt as it would be if run gave up after four steps.
HaltWithStepLimit ==
    /\ pc = "run"
    /\ (pointer >= Len(instructions) \/ steps >= 4)
    /\ pc' = "ok"
    /\ UNCHANGED <<lines, lineno, instructions, memory, pointer, output, err, steps,
                   before, fragment, result>>

\* The loop condition of run fails: Ok(()).
Halt ==
    /\ pc = "run"
    /\ pointer >= Len(instructions)
    /\ pc' = "ok"
    /\ UNCHANGED <<lines, lineno, instructions, memory, pointer, output, err, steps,
                   before, fragment, result>>

\* ExecSet with a zero literal treated as "no value".
ExecSetDroppingZero ==
    /\ Dispatch("Set")
    /\ memory' = IF Current.value = 0 THEN memory
                 ELSE insert(memory, Current.register, Current.value)
    /\ pointer' = pointer + 1
    /\ UNCHANGED <<output, pc, err>>

ExecSet ==
    /\ Dispatch("Set")
    /\ memory' = insert(memory, Current.register, Current.value)
    /\ pointer' = pointer + 1
    /\ UNCHANGED <<output, pc, err>>

\* ExecCpy as it would be if it only overwrote registers that exist.
ExecCpyNoCreate ==
    /\ Dispatch("Cpy")
    /\ LET register1 == Current.register1
           register2 == Current.register2
       IN  IF register1 \notin DOMAIN memory
           THEN Panic
           ELSE /\ memory' = IF register2 \in DOMAIN memory
                             THEN [memory EXCEPT ![register2] = memory[register1]]
                             ELSE memory
                /\ pointer' = pointer + 1
                /\ UNCHANGED <<output, pc, err>>

ExecCpy ==
    /\ Dispatch("Cpy")
    /\ LET register1 == Current.register1
           register2 == Current.register2
       IN  IF register1 \notin DOMAIN memory
           THEN Panic
           ELSE /\ memory' = IF register2 \in DOMAIN memory
                             THEN [memory EXCEPT ![register2] = memory[register1]]
                             ELSE insert(memory, register2, memory[register1])
                /\ pointer' = pointer + 1
                /\ UNCHANGED <<output, pc, err>>

ExecAdd ==
    /\ Dispatch("Add")
    /\ LET register1 == Current.register1
           register2 == Current.register2
       IN  IF register1 \notin DOMAIN memory
           THEN ReturnErr(UninitializedRegister(register1))
           ELSE IF register2 \notin DOMAIN memory
           THEN ReturnErr(UninitializedRegister(register2))
           ELSE \* on overflow: a panic with overflow checks, else wrap-around
                \/ /\ AddOverflows(memory[register2], memory[register1])
                   /\ Panic
                \/ /\ memory' = [memory EXCEPT ![register2] =
                                     WrappingAdd(memory[register2], memory[register1])]
                   /\ pointer' = pointer + 1
                   /\ UNCHANGED <<output, pc, err>>

\* ExecSub as it would be if the difference went to register1.
ExecSubWritingSource ==
    /\ Dispatch("Sub")
    /\ LET register1 == Current.register1
           register2 == Current.register2
       IN  IF register1 \notin DOMAIN memory
           THEN ReturnErr(UninitializedRegister(register1))
           ELSE IF register2 \notin DOMAIN memory
           THEN ReturnErr(UninitializedRegister(register2))
           ELSE \/ /\ SubOverflows(memory[register2], memory[register1])
                   /\ Panic
                \/ /\ memory' = [memory EXCEPT ![register1] =
                                     WrappingSub(memory[register2], memory[register1])]
                   /\ pointer' = pointer + 1
                   /\ UNCHANGED <<output, pc, err>>

ExecSub ==
    /\ Dispatch("Sub")
    /\ LET register1 == Current.register1
           register2 == Current.register2
       IN  IF register1 \notin DOMAIN memory
           THEN ReturnErr(UninitializedRegister(register1))
           ELSE IF register2 \notin DOMAIN memory
           THEN ReturnErr(UninitializedRegister(register2))
           ELSE \* on overflow: a panic with overflow checks, else wrap-around
                \/ /\ SubOverflows(memory[register2], memory[register1])
                   /\ Panic
                \/ /\ memory' = [memory EXCEPT ![register2] =
                                     WrappingSub(memory[register2], memory[register1])]
                   /\ pointer' = pointer + 1
                   /\ UNCHANGED <<output, pc, err>>

\* ExecOut as it would be without `program.pointer += 1`.
ExecOutStaying ==
    /\ Dispatch("Out")
    /\ LET register_ == Current.register
       IN  IF register_ \notin DOMAIN memory
           THEN ReturnErr(UninitializedRegister(register_))
           ELSE /\ output' = output \o Println(memory[register_])
                /\ UNCHANGED <<memory, pointer, pc, err>>

ExecOut ==
    /\ Dispatch("Out")
    /\ LET register_ == Current.register
       IN  IF register_ \notin DOMAIN memory
           THEN ReturnErr(UninitializedRegister(register_))
           ELSE /\ output' = output \o Println(memory[register_])
                /\ pointer' = pointer + 1
                /\ UNCHANGED <<memory, pc, err>>

\* ExecJmp with a target below 1 clamped to the first instruction.
ExecJmpClamping ==
    /\ Dispatch("Jmp")
    /\ LET register_ == Current.register
       IN  IF register_ \notin DOMAIN memory
           THEN ReturnErr(UninitializedRegister(register_))
           ELSE /\ pointer' = IF memory[register_] < 1 THEN 0 ELSE memory[register_] - 1
                /\ UNCHANGED <<memory, output, pc, err>>

ExecJmp ==
    /\ Dispatch("Jmp")
    /\ LET register_ == Current.register
       IN  IF register_ \notin DOMAIN memory
           THEN ReturnErr(UninitializedRegister(register_))
           ELSE IF memory[register_] < 1
           THEN ReturnErr(NegativeExecutionPointer)
           ELSE /\ pointer' = memory[register_] - 1
                /\ UNCHANGED <<memory, output, pc, err>>

ExecJwz ==
    /\ Dispatch("Jwz")
    /\ LET register1 == Current.register1
           register2 == Current.register2
       IN  IF register1 \notin DOMAIN memory
           THEN Panic
           ELSE IF memory[register1] = 0
           THEN IF register2 \notin DOMAIN memory
                THEN ReturnErr(UninitializedRegister(register2))
                ELSE IF memory[register2] < 1
                THEN ReturnErr(NegativeExecutionPointer)
                ELSE /\ pointer' = memory[register2] - 1
                     /\ UNCHANGED <<memory, output, pc, err>>
           ELSE /\ pointer' = pointer + 1
                /\ UNCHANGED <<memory, output, pc, err>>

ExecJnz ==
    /\ Dispatch("Jnz")
    /\ LET register1 == Current.register1
           register2 == Current.register2
       IN  IF register1 \notin DOMAIN memory
           THEN Panic
           ELSE IF memory[register1] = 0
           THEN /\ pointer' = pointer + 1
                /\ UNCHANGED <<memory, output, pc, err>>
           ELSE IF register2 \notin DOMAIN memory
           THEN ReturnErr(UninitializedRegister(register2))
           ELSE IF memory[register2] < 1
           THEN ReturnErr(NegativeExecutionPointer)
           ELSE /\ pointer' = memory[register2] - 1
                /\ UNCHANGED <<memory, output, pc, err>>

\* ExecJwn as it would be if zero counted as negative.
ExecJwnOrZero ==
    /\ Dispatch("Jwn")
    /\ LET register1 == Current.register1
           register2 == Current.register2
       IN  IF register1 \notin DOMAIN memory
           THEN Panic
           ELSE IF memory[register1] <= 0
           THEN IF register2 \notin DOMAIN memory
                THEN ReturnErr(UninitializedRegister(register2))
                ELSE IF memory[register2] < 1
                THEN ReturnErr(NegativeExecutionPointer)
                ELSE /\ pointer' = memory[register2] - 1
                     /\ UNCHANGED <<memory, output, pc, err>>
           ELSE /\ pointer' = pointer + 1
                /\ UNCHANGED <<memory, output, pc, err>>

ExecJwn ==
    /\ Dispatch("Jwn")
    /\ LET register1 == Current.register1
           register2 == Current.register2
       IN  IF register1 \notin DOMAIN memory
           THEN Panic
           ELSE IF memory[register1] < 0
           THEN IF register2 \notin DOMAIN memory
                THEN ReturnErr(UninitializedRegister(register2))
                ELSE IF memory[register2] < 1
                THEN ReturnErr(NegativeExecutionPointer)
                ELSE /\ pointer' = memory[register2] - 1
                     /\ UNCHANGED <<memory, output, pc, err>>
           ELSE /\ pointer' = pointer + 1
                /\ UNCHANGED <<memory, output, pc, err>>

ExecJwp ==
    /\ Dispatch("Jwp")
    /\ LET register1 == Current.register1
           register2 == Current.register2
       IN  IF register1 \notin DOMAIN memory
           THEN Panic
           ELSE IF memory[register1] > 0
           THEN IF register2 \notin DOMAIN memory
                THEN ReturnErr(UninitializedRegister(register2))
                ELSE IF memory[register2] < 1
                THEN ReturnErr(NegativeExecutionPointer)
                ELSE /\ pointer' = memory[register2] - 1
                     /\ UNCHANGED <<memory, output, pc, err>>
           ELSE /\ pointer' = pointer + 1
                /\ UNCHANGED <<memory, output, pc, err>>

\* ExecGth with an absent destination created, as cpy creates it.
ExecGthCreating ==
    /\ Dispatch("Gth")
    /\ LET register1 == Current.register1
           register2 == Current.register2
       IN  IF register1 \notin DOMAIN memory
           THEN ReturnErr(UninitializedRegister(register1))
           ELSE /\ memory' = insert(memory, register2,
                                    IF register2 \in DOMAIN memory
                                       /\ memory[register1] > memory[register2]
                                    THEN 1 ELSE -1)
                /\ pointer' = pointer + 1
                /\ UNCHANGED <<output, pc, err>>

\* ExecGth comparing with >= instead of >.
ExecGthOrEqual ==
    /\ Dispatch("Gth")
    /\ LET register1 == Current.register1
           register2 == Current.register2
       IN  IF register1 \notin DOMAIN memory
           THEN ReturnErr(UninitializedRegister(register1))
           ELSE IF register2 \notin DOMAIN memory
           THEN ReturnErr(UninitializedRegister(register2))
           ELSE /\ memory' = [memory EXCEPT ![register2] =
                                 IF memory[register1] >= memory[register2] THEN 1 ELSE -1]
                /\ pointer' = pointer + 1
                /\ UNCHANGED <<output, pc, err>>

ExecGth ==
    /\ Dispatch("Gth")
    /\ LET register1 == Current.register1
           register2 == Current.register2
       IN  IF register1 \notin DOMAIN memory
           THEN ReturnErr(UninitializedRegister(register1))
           ELSE IF register2 \notin DOMAIN memory
           THEN ReturnErr(UninitializedRegister(register2))
           ELSE /\ memory' = [memory EXCEPT ![register2] =
                                 IF memory[register1] > memory[register2] THEN 1 ELSE -1]
                /\ pointer' = pointer + 1
                /\ UNCHANGED <<output, pc, err>>

ExecLth ==
    /\ Dispatch("Lth")
    /\ LET register1 == Current.register1
           register2 == Current.register2
       IN  IF register1 \notin DOMAIN memory
           THEN ReturnErr(UninitializedRegister(register1))
           ELSE IF register2 \notin DOMAIN memory
           THEN ReturnErr(UninitializedRegister(register2))
           ELSE /\ memory' = [memory EXCEPT ![register2] =
                                 IF memory[register1] < memory[register2] THEN 1 ELSE -1]
                /\ pointer' = pointer + 1
                /\ UNCHANGED <<output, pc, err>>

ExecChr ==
    /\ Dispatch("Chr")
    /\ LET register_ == Current.register
       IN  IF register_ \notin DOMAIN memory
           THEN ReturnErr(UninitializedRegister(register_))
           ELSE /\ output' = Append(output, OutChar(memory[register_]))
                /\ pointer' = pointer + 1
                /\ UNCHANGED <<memory, pc, err>>

---------------------------------------------------------------------------
(* The specification.                                                      *)

Next ==
    \/ ReadLine
    \/ StartRun
    \/ Halt
    \/ ExecSet
    \/ ExecCpy
    \/ ExecAdd
    \/ ExecSub
    \/ ExecOut
    \/ ExecJmp
    \/ ExecJwz
    \/ ExecJnz
    \/ ExecJwn
    \/ ExecJwp
    \/ ExecGth
    \/ ExecLth
    \/ ExecChr

Spec == Init /\ [][Next]_vars

---------------------------------------------------------------------------
(* src/parse.rs: the parsers applied alone to a text.                      *)

\* Every text of up to MaxFragment characters over a small alphabet:
\* letters of both cases, a digit, the underscore, a space.
FragmentChars == {"a", "Z", "1", "_", " "}

CharFragments == UNION {[1..n -> FragmentChars] : n \in 0..MaxFragment}

\* Lines put together from a keyword, two operands, and what stands before,
\* between and after them.
LineLeads == { <<>>, <<" ">> }

LineKeywords ==
    { <<"o","u","t">>, <<"j","m","p">>, <<"s","e","t">>, <<"c","p","y">>,
      <<"l","t","h">>, <<"c","h","r">>, <<"o","u">> }

LineSeparators == { <<>>, <<" ">>, <<"\t"," ">> }

LineOperands ==
    { <<"a">>, <<"b","_","1">>, <<"_","c">>, <<"7">>, <<"-","1">>, <<"+","3">>,
      <<"2","1","4","7","4","8","3","6","4","7">>,
      <<"2","1","4","7","4","8","3","6","4","8">>,
      <<"-","2","1","4","7","4","8","3","6","4","8">>,
      <<"-","2","1","4","7","4","8","3","6","4","9">> }

LineTails == { <<>>, <<" ">>, <<" ","x">> }

LineTexts ==
    {l \o k \o s1 \o o1 \o s2 \o o2 \o t :
        l \in LineLeads, k \in LineKeywords, s1 \in LineSeparators,
        o1 \in LineOperands, s2 \in LineSeparators,
        o2 \in LineOperands \cup {<<>>}, t \in LineTails}

Fragments == CharFragments \cup LineTexts

InitGrammar ==
    /\ fragment \in Fragments
    /\ result = Err
    /\ pc = "text"
    /\ lines = <<>>
    /\ lineno = 0
    /\ instructions = <<>>
    /\ memory = <<>>
    /\ pointer = 0
    /\ output = <<>>
    /\ err = NoError
    /\ steps = 0
    /\ before = [pointer |-> 0, memory |-> <<>>, output |-> <<>>]

\* register(input)
ApplyRegister ==
    /\ pc = "text"
    /\ result' = register(fragment)
    /\ pc' = "register"
    /\ UNCHANGED <<lines, lineno, instructions, memory, pointer, output, err, steps,
                   before, fragment>>

\* Instruction::try_from(input)
ApplyInstruction ==
    /\ pc = "text"
    /\ result' = TryFrom(fragment)
    /\ pc' = "instruction"
    /\ UNCHANGED <<lines, lineno, instructions, memory, pointer, output, err, steps,
                   before, fragment>>

NextGrammar ==
    \/ ApplyRegister
    \/ ApplyInstruction

SpecGrammar == InitGrammar /\ [][NextGrammar]_vars

---------------------------------------------------------------------------
(* Vocabulary of the properties.                                           *)

\* The instruction of the latest call of Execute::execute (when steps > 0).
Last == instructions[before.pointer + 1]

Assigned(r) == r \in DOMAIN before.memory

\* The run is still going, or has returned Ok(()).
Sound == pc \in {"run", "ok"} /\ err = NoError

BranchVariants == {"Jwz", "Jnz", "Jwn", "Jwp"}

JumpVariants == {"Jmp"} \cup BranchVariants

\* Whether the branch condition of a conditional jump held when it ran.
Taken ==
    CASE Last.op = "Jwz" -> before.memory[Last.register1] = 0
      [] Last.op = "Jnz" -> before.memory[Last.register1] # 0
      [] Last.op = "Jwn" -> before.memory[Last.register1] < 0
      [] Last.op = "Jwp" -> before.memory[Last.register1] > 0

\* The register an instruction writes, as a set (empty for out, chr and jumps).
Destination(i) ==
    IF i.op = "Set" THEN {i.register}
    ELSE IF i.op \in {"Cpy", "Add", "Sub", "Gth", "Lth"} THEN {i.register2}
    ELSE {}

---------------------------------------------------------------------------
(* C1: `cpy r1 r2` executed while r1 is unassigned ends the run with the    *)
(* execution error UninitializedRegister(r1).                              *)
C1_CpyUnassignedSourceRaises ==
    (steps > 0 /\ Last.op = "Cpy" /\ ~Assigned(Last.register1))
        => (pc = "exec_error" /\ err = UninitializedRegister(Last.register1))

(* C2: jwz, jnz, jwn and jwp executed while the condition register r1 is    *)
(* unassigned end the run with UninitializedRegister(r1), whether or not   *)
(* r2 is assigned.                                                         *)
C2_BranchUnassignedConditionRaises ==
    (steps > 0 /\ Last.op \in BranchVariants /\ ~Assigned(Last.register1))
        => (pc = "exec_error" /\ err = UninitializedRegister(Last.register1))

(* C3: add, sub, gth, lth (either operand) and out, chr, jmp (their one     *)
(* register) executed with an unassigned operand end the run with          *)
(* UninitializedRegister naming an unassigned operand, and create no       *)
(* register: memory and pointer are what they were.                        *)
C3_UnassignedOperandRaises ==
    steps > 0 =>
        /\ (/\ Last.op \in {"Add", "Sub", "Gth", "Lth"}
            /\ ~(Assigned(Last.register1) /\ Assigned(Last.register2)))
           => /\ pc = "exec_error"
              /\ err.kind = "UninitializedRegister"
              /\ err.register \in {Last.register1, Last.register2}
              /\ ~Assigned(err.register)
              /\ memory = before.memory
              /\ pointer = before.pointer
        /\ (Last.op \in {"Out", "Chr", "Jmp"} /\ ~Assigned(Last.register))
           => /\ pc = "exec_error"
              /\ err = UninitializedRegister(Last.register)
              /\ memory = before.memory
              /\ pointer = before.pointer

\* gth with r1 assigned and r2 not: the error names r2 and r2 is still absent.
C3_Witness ==
    /\ steps > 0
    /\ Last.op = "Gth"
    /\ Assigned(Last.register1)
    /\ ~Assigned(Last.register2)
    /\ pc = "exec_error"
    /\ err = UninitializedRegister(Last.register2)
    /\ Last.register2 \notin DOMAIN memory

(* C4: for jmp, and for a taken jwz/jnz/jwn/jwp, a target value v < 1 ends  *)
(* the run with NegativeExecutionPointer and the pointer is not clamped; a *)
(* target v >= 1 sets the pointer to exactly v - 1.                        *)
C4_JumpTarget ==
    (/\ steps > 0
     /\ Last.op \in JumpVariants
     /\ IF Last.op = "Jmp" THEN Assigned(Last.register)
        ELSE Assigned(Last.register1) /\ Assigned(Last.register2) /\ Taken)
    => LET v == before.memory[IF Last.op = "Jmp" THEN Last.register
                              ELSE Last.register2]
       IN  IF v < 1
           THEN /\ pc = "exec_error"
                /\ err = NegativeExecutionPointer
                /\ pointer = before.pointer
           ELSE /\ Sound
                /\ pointer = v - 1

\* A taken jwz whose target register holds 1: the pointer is back at index 0.
C4_Witness ==
    /\ steps > 0
    /\ Last.op = "Jwz"
    /\ Last.register1 # Last.register2
    /\ Assigned(Last.register1)
    /\ Assigned(Last.register2)
    /\ before.memory[Last.register1] = 0
    /\ before.memory[Last.register2] = 1
    /\ before.pointer = 2
    /\ pointer = 0
    /\ pc = "run"

(* C5: with r1 and r2 assigned, gth leaves 1 in r2 if old r1 > old r2 and   *)
(* -1 otherwise; lth leaves 1 if old r1 < old r2 and -1 otherwise; equal   *)
(* values give -1 for both.                                                *)
C5_Comparison ==
    (/\ steps > 0
     /\ Last.op \in {"Gth", "Lth"}
     /\ Assigned(Last.register1)
     /\ Assigned(Last.register2))
    => LET old1 == before.memory[Last.register1]
           old2 == before.memory[Last.register2]
           holds == IF Last.op = "Gth" THEN old1 > old2 ELSE old1 < old2
       IN  /\ Sound
           /\ Last.register2 \in DOMAIN memory
           /\ memory[Last.register2] = (IF holds THEN 1 ELSE -1)
           /\ old1 = old2 => memory[Last.register2] = -1

\* gth on two distinct registers holding the same value left -1.
C5_Witness ==
    /\ steps > 0
    /\ Last.op = "Gth"
    /\ Last.register1 # Last.register2
    /\ Assigned(Last.register1)
    /\ Assigned(Last.register2)
    /\ before.memory[Last.register1] = before.memory[Last.register2]
    /\ memory[Last.register2] = -1
    /\ Sound

(* C6: Program::run returns success exactly when the pointer is at or past *)
(* the end of the instruction sequence, and a run ends in no other way     *)
(* than that success or an execution error.                                *)
C6_RunEndsOkOrExecError ==
    /\ pc = "ok" => pointer >= Len(instructions)
    /\ (pc = "run" /\ pointer >= Len(instructions)) => ENABLED Halt
    /\ pc = "exec_error" => err # NoError
    /\ pc \notin {"parse", "syntax_error", "run"} => pc \in {"ok", "exec_error"}

\* No instruction of the sequence is a jump.
NoJump == \A k \in 1..Len(instructions) : instructions[k].op \notin JumpVariants

(* C7: a program of N instructions with no jump that raises no execution   *)
(* error executes exactly N steps, at pointers 0, 1, ..., N-1 in order,    *)
(* and then halts successfully with the pointer at N.                      *)
C7_StraightLineRunsNSteps ==
    (NoJump /\ pc \notin {"parse", "syntax_error", "exec_error"})
    => /\ Sound
       /\ pointer = steps
       /\ steps <= Len(instructions)
       /\ steps > 0 => before.pointer = steps - 1
       /\ pc = "ok" => steps = Len(instructions)

(* C8: `set r v` never fails and leaves exactly v in r, creating r if      *)
(* absent; an assigned register keeps its value through every step whose   *)
(* destination is another register, and stays assigned; no                 *)
(* UninitializedRegister is ever raised for an assigned register, one      *)
(* holding 0 included.                                                     *)
C8_SetThenRead ==
    /\ (steps > 0 /\ Last.op = "Set")
       => /\ Sound
          /\ Last.register \in DOMAIN memory
          /\ memory[Last.register] = Last.value
          /\ pointer = before.pointer + 1
    /\ steps > 0
       => \A r \in DOMAIN before.memory :
             /\ r \in DOMAIN memory
             /\ r \notin Destination(Last) => memory[r] = before.memory[r]
    /\ (pc = "exec_error" /\ err.kind = "UninitializedRegister")
       => err.register \notin DOMAIN memory

\* `set a 0` followed by `out a`: the read succeeds and prints 0.
C8_Witness ==
    /\ steps = 2
    /\ instructions[1].op = "Set"
    /\ instructions[1].value = 0
    /\ Last.op = "Out"
    /\ Last.register = instructions[1].register
    /\ before.pointer = 1
    /\ output = <<48, 10>>
    /\ Sound

\* The keyword of each opcode of the engine.
Keyword(variant) ==
    CASE variant = "Set" -> <<"s","e","t">>
      [] variant = "Cpy" -> <<"c","p","y">>
      [] variant = "Add" -> <<"a","d","d">>
      [] variant = "Sub" -> <<"s","u","b">>
      [] variant = "Out" -> <<"o","u","t">>
      [] variant = "Chr" -> <<"c","h","r">>
      [] variant = "Jmp" -> <<"j","m","p">>
      [] variant = "Jwz" -> <<"j","w","z">>
      [] variant = "Jnz" -> <<"j","n","z">>
      [] variant = "Jwn" -> <<"j","w","n">>
      [] variant = "Jwp" -> <<"j","w","p">>
      [] variant = "Gth" -> <<"g","t","h">>
      [] variant = "Lth" -> <<"l","t","h">>

\* The source line of a one-register or two-register instruction.
LineOf(i) ==
    IF i.op \in OneRegisterVariants
    THEN Keyword(i.op) \o <<" ">> \o i.register
    ELSE Keyword(i.op) \o <<" ">> \o i.register1 \o <<" ">> \o i.register2

(* C9: every opcode the engine dispatches is an opcode the grammar          *)
(* produces: a source line that writes a one-register or two-register      *)
(* instruction of the engine (jwn, jwp and chr included) is never the      *)
(* line a syntax error is returned for.                                    *)
C9_GrammarCoversEngine ==
    pc = "syntax_error"
        => lines[lineno] \notin {LineOf(i) : i \in {j \in Instructions : j.op # "Set"}}

(* C10: nothing executes unless every line of the source has parsed: once  *)
(* the run has started every line was read and parses; at a syntax error   *)
(* the failing line is the first that does not parse, the lines after it   *)
(* are unread, and no step was made, no register written, nothing printed. *)
C10_ParseBeforeRun ==
    /\ (pc \in {"run", "ok", "exec_error", "panic"} \/ steps > 0
            \/ memory # <<>> \/ output # <<>>)
       => /\ lineno = Len(lines)
          /\ lines # <<>> => Len(instructions) = Len(lines)
          /\ \A k \in 1..Len(lines) :
                TryFrom(lines[k]).ok /\ instructions[k] = TryFrom(lines[k]).val
    /\ pc = "syntax_error"
       => /\ lineno \in 1..Len(lines)
          /\ ~TryFrom(lines[lineno]).ok
          /\ \A k \in 1..(lineno - 1) : TryFrom(lines[k]).ok
          /\ Len(instructions) = lineno - 1
          /\ steps = 0 /\ memory = <<>> /\ output = <<>> /\ pointer = 0
          /\ ~ENABLED Next

\* The first of two lines failed: the second is unread and nothing ran.
C10_Witness ==
    /\ pc = "syntax_error"
    /\ Len(lines) = 2
    /\ lineno = 1
    /\ TryFrom(lines[2]).ok
    /\ instructions = <<>>
    /\ steps = 0

\* A program of `set` lines closed by `jmp r`, where r is set and only ever
\* to the number of a line before the jmp.
LoopProgram ==
    /\ Len(instructions) >= 2
    /\ instructions[Len(instructions)].op = "Jmp"
    /\ \A k \in 1..(Len(instructions) - 1) : instructions[k].op = "Set"
    /\ \E k \in 1..(Len(instructions) - 1) :
          instructions[k].register = instructions[Len(instructions)].register
    /\ \A k \in 1..(Len(instructions) - 1) :
          instructions[k].register = instructions[Len(instructions)].register
             => instructions[k].value \in 1..(Len(instructions) - 1)

(* C11: run has no step limit: in a program whose last line jumps back     *)
(* unconditionally to an earlier line, with a valid target, the pointer is *)
(* a valid index in every reachable state of the run, the run never ends   *)
(* (neither Ok nor an error nor a panic) and a next step is always there.  *)
C11_LoopRunsForever ==
    (LoopProgram /\ pc \notin {"parse", "syntax_error"}) =>
        /\ pc = "run"
        /\ err = NoError
        /\ pointer < Len(instructions)
        /\ steps < MaxSteps => ENABLED Next

\* The loop `set a 1` / `jmp a` or a longer one, back at line 1 after four
\* or more steps, still running.
C11_Witness ==
    /\ LoopProgram
    /\ pc = "run"
    /\ steps >= 4
    /\ pointer = 0
    /\ before.pointer = Len(instructions) - 1

\* What the latest step appended to the output.
Emitted == Drop(output, Len(before.output))

\* The text of a run of code points, for the digits and the minus sign.
TextOf(codes) ==
    [k \in 1..Len(codes) |->
        IF codes[k] = 45 THEN "-"
        ELSE IF codes[k] \in 48..57
        THEN <<"0","1","2","3","4","5","6","7","8","9">>[codes[k] - 47]
        ELSE "?"]

(* C12: the output grows only at its end, by one item per executed out or  *)
(* chr: `out r` appends the decimal text of value(r) (minus sign only for  *)
(* negatives, no leading zero, reading back as value(r)) and a line feed;  *)
(* `chr r` appends one character and no line feed, the scalar value(r) if  *)
(* it is one, else the placeholder U+00B7 (negatives, surrogates, values   *)
(* above 0x10FFFF); every other step, and every failed step, appends       *)
(* nothing.                                                                *)
C12_OutputStream ==
    /\ steps = 0 => output = <<>>
    /\ steps > 0 =>
        /\ Len(output) >= Len(before.output)
        /\ Take(output, Len(before.output)) = before.output
        /\ (Last.op = "Out" /\ Assigned(Last.register)) =>
              LET value == before.memory[Last.register]
                  text == Take(Emitted, Len(Emitted) - 1)
                  digits == IF value < 0 THEN Tail(text) ELSE text
              IN  /\ Len(Emitted) >= 2
                  /\ Emitted[Len(Emitted)] = 10
                  /\ (value < 0) <=> (text[1] = 45)
                  /\ \A k \in 1..Len(digits) : digits[k] \in 48..57
                  /\ Len(digits) > 1 => digits[1] # 48
                  /\ i32(TextOf(text)) = Ok(<<>>, value)
        /\ (Last.op = "Chr" /\ Assigned(Last.register)) =>
              LET value == before.memory[Last.register]
                  scalar == \/ 0 <= value /\ value < 55296
                            \/ 57343 < value /\ value <= 1114111
              IN  Emitted = <<IF scalar THEN value ELSE 183>>
        /\ (\/ Last.op \notin {"Out", "Chr"}
            \/ pc \in {"exec_error", "panic"})
           => Emitted = <<>>

\* chr of the surrogate 0xD800 wrote the placeholder, after nothing else.
C12_Witness ==
    /\ steps > 0
    /\ Last.op = "Chr"
    /\ Assigned(Last.register)
    /\ before.memory[Last.register] = 55296
    /\ output = <<183>>

(* C15: a conditional jump `op r1 r2` run with r1 assigned takes the       *)
(* branch exactly when value(r1) = 0 (jwz), # 0 (jnz), < 0 (jwn), > 0      *)
(* (jwp). Taken, it behaves as jmp r2 (error for r2 unassigned or below 1, *)
(* else pointer = value(r2) - 1); not taken, it succeeds with pointer + 1  *)
(* whatever r2 is: unassigned or below 1 raises nothing. No register       *)
(* changes and nothing is printed either way.                              *)
C15_ConditionalJump ==
    (steps > 0 /\ Last.op \in BranchVariants /\ Assigned(Last.register1)) =>
        LET value1 == before.memory[Last.register1]
            condition == \/ Last.op = "Jwz" /\ value1 = 0
                         \/ Last.op = "Jnz" /\ value1 # 0
                         \/ Last.op = "Jwn" /\ value1 < 0
                         \/ Last.op = "Jwp" /\ value1 > 0
        IN  /\ memory = before.memory
            /\ output = before.output
            /\ condition =>
                  IF ~Assigned(Last.register2)
                  THEN pc = "exec_error" /\ err = UninitializedRegister(Last.register2)
                  ELSE IF before.memory[Last.register2] < 1
                  THEN pc = "exec_error" /\ err = NegativeExecutionPointer
                  ELSE Sound /\ pointer = before.memory[Last.register2] - 1
            /\ ~condition => Sound /\ pointer = before.pointer + 1

\* jwn on a register that is not negative, with r2 unassigned: no error,
\* on to the next line.
C15_Witness ==
    /\ steps > 0
    /\ Last.op = "Jwn"
    /\ Assigned(Last.register1)
    /\ before.memory[Last.register1] >= 0
    /\ ~Assigned(Last.register2)
    /\ Sound
    /\ pointer = before.pointer + 1

(* C16: `add r1 r2` and `sub r1 r2` run with both registers assigned       *)
(* (r1 = r2 included) succeed for all operands: the run goes on, the       *)
(* pointer advances, and r2 holds a signed 32-bit integer, old r2 + old r1 *)
(* respectively old r2 - old r1, taken modulo 2^32 where the exact result  *)
(* does not fit; no other register changes.                                *)
C16_AddSubSucceed ==
    (/\ steps > 0
     /\ Last.op \in {"Add", "Sub"}
     /\ Assigned(Last.register1)
     /\ Assigned(Last.register2)) =>
        LET old1 == before.memory[Last.register1]
            old2 == before.memory[Last.register2]
        IN  /\ Sound
            /\ pointer = before.pointer + 1
            /\ DOMAIN memory = DOMAIN before.memory
            /\ memory[Last.register2] \in I32
            /\ memory[Last.register2] =
                  IF Last.op = "Add" THEN WrappingAdd(old2, old1)
                  ELSE WrappingSub(old2, old1)
            /\ \A r \in DOMAIN memory \ {Last.register2} : memory[r] = before.memory[r]

\* The latest step was a jump that was taken and succeeded.
JumpTaken ==
    /\ Sound
    /\ \/ Last.op = "Jmp"
       \/ Last.op \in BranchVariants /\ Taken

\* The target of the latest jump, a line number counted from 1.
Target ==
    IF Last.op = "Jmp" THEN before.memory[Last.register]
    ELSE before.memory[Last.register2]

(* C17: the pointer is a non-negative integer, 0 before the first step.    *)
(* A successful step adds exactly 1 to it (set, cpy, add, sub, out, chr,   *)
(* gth, lth, branches not taken) or, for a taken jump, overwrites it with  *)
(* target - 1 where target >= 1. A step that leaves the pointer where it   *)
(* was has failed (execution error or panic), unless it is a taken jump to *)
(* its own line.                                                           *)
C17_PointerMoves ==
    /\ pointer \in Nat
    /\ steps = 0 => pointer = 0
    /\ (steps > 0 /\ Sound) =>
          IF JumpTaken
          THEN Target >= 1 /\ pointer = Target - 1
          ELSE pointer = before.pointer + 1
    /\ (steps > 0 /\ pointer = before.pointer) =>
          \/ pc \in {"exec_error", "panic"}
          \/ JumpTaken /\ Target = before.pointer + 1

\* A taken jump whose target is its own line: the pointer stays, no error.
C17_Witness ==
    /\ steps > 0
    /\ JumpTaken
    /\ Target = before.pointer + 1
    /\ pointer = before.pointer
    /\ before.pointer > 0

(* C18: `cpy r1 r2` run with r1 assigned never fails: afterwards r2 exists *)
(* (created if absent, overwritten otherwise) and holds the old value of   *)
(* r1, r1 and every other register are unchanged, the pointer has advanced *)
(* by 1. A later read of r2 cannot fail for lack of a value: an            *)
(* UninitializedRegister error, and a panic on the condition register of a *)
(* branch or the source of a cpy, only ever concern a register that is     *)
(* absent from memory.                                                     *)
C18_CpyCreatesOrOverwrites ==
    /\ (steps > 0 /\ Last.op = "Cpy" /\ Assigned(Last.register1)) =>
          /\ Sound
          /\ pointer = before.pointer + 1
          /\ output = before.output
          /\ DOMAIN memory = DOMAIN before.memory \cup {Last.register2}
          /\ memory[Last.register2] = before.memory[Last.register1]
          /\ memory[Last.register1] = before.memory[Last.register1]
          /\ \A r \in DOMAIN before.memory \ {Last.register2} :
                memory[r] = before.memory[r]
    /\ (pc = "exec_error" /\ err.kind = "UninitializedRegister") =>
          err.register \notin DOMAIN memory
    /\ (pc = "panic" /\ Last.op \in {"Cpy"} \cup BranchVariants) =>
          Last.register1 \notin DOMAIN memory

\* `set a 1` / `cpy a b` / `out b`: the cpy created b and the later out read
\* it and printed the value of a.
C18_Witness ==
    /\ Len(instructions) = 3
    /\ instructions[1].op = "Set"
    /\ instructions[2].op = "Cpy"
    /\ instructions[2].register1 = instructions[1].register
    /\ instructions[2].register1 # instructions[2].register2
    /\ instructions[3] = [op |-> "Out", register |-> instructions[2].register2]
    /\ steps = 3
    /\ Sound
    /\ memory[instructions[2].register2] = memory[instructions[2].register1]
    /\ output = Println(memory[instructions[2].register1])

(* C19: when a step returns an execution error (UninitializedRegister or   *)
(* NegativeExecutionPointer) the memory and the pointer are exactly what   *)
(* they were when the step began and the step printed nothing: the error   *)
(* comes before any write, also when r1 of a two-operand instruction is    *)
(* assigned and r2 is not. The run is over: no instruction executes after. *)
C19_ErrorLeavesStateAlone ==
    pc = "exec_error" =>
        /\ steps > 0
        /\ err.kind \in {"UninitializedRegister", "NegativeExecutionPointer"}
        /\ memory = before.memory
        /\ pointer = before.pointer
        /\ output = before.output
        /\ ~ENABLED Next

\* A two-operand instruction with r1 assigned and r2 absent: the error names
\* r2, which is still absent.
C19_Witness ==
    /\ pc = "exec_error"
    /\ steps > 0
    /\ Last.op \in TwoRegisterVariants
    /\ Assigned(Last.register1)
    /\ ~Assigned(Last.register2)
    /\ err = UninitializedRegister(Last.register2)
    /\ Last.register2 \notin DOMAIN memory
    /\ pointer = before.pointer

(* C20: a step changes at most one register, its destination: the register *)
(* of set, register2 of cpy, add, sub, gth and lth; every other register   *)
(* keeps its value. out, chr, jmp, jwz, jnz, jwn and jwp change no         *)
(* register. The set of assigned registers never shrinks, and grows only   *)
(* by a set or a cpy. Once parsed, the instruction sequence never changes. *)
C20_FrameEffect ==
    [][ /\ pc # "parse" => instructions' = instructions
        /\ DOMAIN memory \subseteq DOMAIN memory'
        /\ IF pc = "run" /\ pointer < Len(instructions)
           THEN LET destination ==
                        IF Current.op = "Set" THEN {Current.register}
                        ELSE IF Current.op \in {"Cpy", "Add", "Sub", "Gth", "Lth"}
                        THEN {Current.register2}
                        ELSE {}
                IN  /\ \A r \in DOMAIN memory \ destination : memory'[r] = memory[r]
                    /\ DOMAIN memory' \subseteq DOMAIN memory \cup destination
                    /\ DOMAIN memory' # DOMAIN memory => Current.op \in {"Set", "Cpy"}
                    /\ Current.op \in {"Out", "Chr", "Jmp", "Jwz", "Jnz", "Jwn", "Jwp"}
                          => memory' = memory
           ELSE memory' = memory
      ]_vars

\* sub a b with both assigned: b changed, a kept its value, the registers
\* are the same two.
C20_Witness ==
    /\ steps > 0
    /\ Last.op = "Sub"
    /\ Last.register1 # Last.register2
    /\ Assigned(Last.register1)
    /\ Assigned(Last.register2)
    /\ Sound
    /\ memory[Last.register2] # before.memory[Last.register2]
    /\ memory[Last.register1] = before.memory[Last.register1]
    /\ DOMAIN memory = DOMAIN before.memory

(* C13: the register parser applied to a text succeeds exactly when the    *)
(* text starts with a letter. It then returns as the name the longest      *)
(* prefix made of a letter followed by letters, digits and underscores,    *)
(* and as the remainder the rest of the text. A text that is empty or      *)
(* starts with a digit, an underscore or a space is rejected.              *)
C13_RegisterGrammar ==
    pc = "register" =>
        /\ result.ok <=> (fragment # <<>> /\ Head(fragment) \in Alpha)
        /\ ~result.ok => result = Err
        /\ result.ok =>
              /\ result.val \o result.rest = fragment
              /\ Len(result.val) >= 1
              /\ result.val[1] \in Alpha
              /\ \A k \in 2..Len(result.val) :
                    result.val[k] \in Alpha \cup Digit \cup {"_"}
              /\ result.rest # <<>> =>
                    Head(result.rest) \notin Alpha \cup Digit \cup {"_"}

\* A name with a digit or an underscore in it, cut off at a space.
C13_Witness ==
    /\ pc = "register"
    /\ result.ok
    /\ Len(result.val) >= 2
    /\ result.val[2] \in {"1", "_"}
    /\ result.rest # <<>>
    /\ Head(result.rest) = " "

RECURSIVE WordLen(_)
\* Length of the longest prefix of s free of whitespace.
WordLen(s) ==
    IF s = <<>> \/ Head(s) \in MultiSpace THEN 0
    ELSE 1 + WordLen(Tail(s))

RECURSIVE Tokens(_)
\* The words of a line: its maximal runs of characters other than whitespace.
Tokens(s) ==
    IF s = <<>> THEN <<>>
    ELSE IF Head(s) \in MultiSpace THEN Tokens(Tail(s))
    ELSE <<Take(s, WordLen(s))>> \o Tokens(Drop(s, WordLen(s)))

\* A word that is a register name.
IsName(w) ==
    /\ w # <<>>
    /\ Head(w) \in Alpha
    /\ \A k \in 2..Len(w) : w[k] \in Alpha \cup Digit \cup {"_"}

(* C14: parsing a line gives one Instruction or a syntax error, and an     *)
(* Instruction only for a line that is, word by word, a keyword and its    *)
(* operands in one of the three shapes, the words separated by whitespace: *)
(* out/jmp and a register name; set, a register name and a literal that    *)
(* fits a signed 32-bit integer, kept as written, never wrapped; a         *)
(* two-register keyword and two register names. Anything else (more or     *)
(* fewer words, a word of the wrong kind, text after the last operand, a   *)
(* literal out of range) is a syntax error.                                *)
C14_LineShape ==
    pc = "instruction" =>
        /\ ~result.ok => result = Err
        /\ result.ok =>
              LET words == Tokens(fragment)
              IN  /\ result.rest = <<>>
                  /\ \/ /\ Len(words) = 2
                        /\ \E v \in {"Out", "Jmp"} :
                              /\ words[1] = Keyword(v)
                              /\ IsName(words[2])
                              /\ result.val = [op |-> v, register |-> words[2]]
                     \/ /\ Len(words) = 3
                        /\ words[1] = Keyword("Set")
                        /\ IsName(words[2])
                        /\ i32(words[3]).ok
                        /\ i32(words[3]).rest = <<>>
                        /\ result.val = [op |-> "Set", register |-> words[2],
                                         value |-> i32(words[3]).val]
                     \/ /\ Len(words) = 3
                        /\ \E v \in {"Cpy", "Add", "Sub", "Jwz", "Jnz", "Gth", "Lth"} :
                              /\ words[1] = Keyword(v)
                              /\ IsName(words[2])
                              /\ IsName(words[3])
                              /\ result.val = [op |-> v, register1 |-> words[2],
                                               register2 |-> words[3]]

====
